---- MODULE Spec2Model ----
(***************************************************************************)
(* Email classifier: the REST handlers of server/routes.ts over the        *)
(* DatabaseStorage data-access layer and the two language-model calls of   *)
(* server/openai.ts.                                                       *)
(*                                                                         *)
(* The database is a set of rows per table.  Every HTTP request occupies a *)
(* request slot; a handler that awaits several storage / model calls is    *)
(* one action per awaited call, a handler that awaits one storage call is  *)
(* one action.  Under Spec requests are served one at a time; under        *)
(* SpecOverlap two requests interleave at their awaits, and SpecLive adds  *)
(* that every awaited call settles; SpecList lists the executions of a     *)
(* workflow that has run up to MaxExecutions times.                        *)
(***************************************************************************)
EXTENDS Integers, Sequences, FiniteSets, TLC

\* ------------------------------------------------------------------ bounds
\* number of HTTP requests accepted in one run
MaxRequests == 3
\* last instant of the wall clock
MaxTime == 2
\* most executions a workflow has run when its executions are listed
MaxExecutions == 12

\* ---------------------------------------------------------------- universe
Users == {"u1", "u2"}
\* email_accounts rows (id -> user_id); accounts are connected before any
\* request of the model is served
AccountOwner == [a1 |-> "u1", a2 |-> "u2"]
Accounts == DOMAIN AccountOwner
\* request slots; Spec serves every request in slot r1
Reqs == {"r1", "r2"}
SerialReqs == {"r1"}
\* label names users type, and names the model may answer
LabelNames == {"Work", "home"}
\* ids a request may name in its path or body (of rows that exist or not)
EmailIdInputs == 1..3
LabelIdInputs == 1..2
WorkflowIdInputs == 1..2
\* the filters a request body may carry: no labelIds field, or a labelIds array
NoFilters == [hasLabelIds |-> FALSE, labelIds |-> <<>>]
FiltersInputs ==
    {NoFilters} \cup {[hasLabelIds |-> TRUE, labelIds |-> ids] : ids \in {<<>>, <<1>>, <<2, 1>>}}
ReceivedAtInputs == {1, 2}
\* the frequency a request body may carry: any string passes the schema
FrequencyInputs == {"weekly", "biweekly", "monthly"}
\* a body without the required frequency
NoFrequency == "none"
\* the bodies of POST /api/workflows: weekly with each of the filters, and
\* each other frequency (or none) without labelIds
WorkflowBodyInputs ==
    {[frequency |-> "weekly", filters |-> f] : f \in FiltersInputs}
    \cup {[frequency |-> f, filters |-> NoFilters] :
            f \in (FrequencyInputs \ {"weekly"}) \cup {NoFrequency}}
\* timestamp columns that are NULL
NullTime == 0
PlaceholderSummary == "Summary generation failed."

VARIABLES
    now,                \* wall clock: the latest time a handler or the database read
    emails,             \* table emails: [id, emailAccountId, receivedAt, isRead]
    labels,             \* table labels: [id, userId, name]
    emailLabels,        \* table email_labels: [id, emailId, labelId, isAuto]
    workflows,          \* table workflows: [id, userId, frequency, filters, lastRunAt, nextRunAt]
    workflowExecutions, \* table workflow_executions
    nextId,             \* rows inserted so far (gen_random_uuid never repeats)
    served,             \* requests accepted so far
    req                 \* request slot -> the handler's locals and its response

vars == <<now, emails, labels, emailLabels, workflows, workflowExecutions,
          nextId, served, req>>
db == <<emails, labels, emailLabels, workflows, workflowExecutions, nextId>>

\* ------------------------------------------------------------ sequences
Includes(s, x) == \E i \in DOMAIN s : s[i] = x
Range(s) == {s[i] : i \in DOMAIN s}
Perms(S) ==
    {s \in [1..Cardinality(S) -> S] : \A i, j \in DOMAIN s : i # j => s[i] # s[j]}
\* s is ordered by receivedAt, newest first
NewestFirst(s) ==
    \A i, j \in DOMAIN s : i < j => s[i].receivedAt >= s[j].receivedAt

\* --------------------------------------------------------------- storage
NoWorkflow ==
    [id |-> 0, userId |-> "none", frequency |-> NoFrequency, filters |-> NoFilters,
     lastRunAt |-> NullTime, nextRunAt |-> NullTime]

\* the rows a user's email carries in EmailWithLabels.labels: the email_labels
\* rows of the email left-joined with their label
LabelsOfEmail(e) ==
    {el \in emailLabels : el.emailId = e.id /\ \E l \in labels : l.id = el.labelId}

WithLabels(e) == [id |-> e.id, receivedAt |-> e.receivedAt, labels |-> LabelsOfEmail(e)]

EmailsOfUser(userId) == {e \in emails : AccountOwner[e.emailAccountId] = userId}

\* the query without its ORDER BY
GetEmailsByUserIdUnordered(userId) == Perms({WithLabels(e) : e \in EmailsOfUser(userId)})

\* every result the query may return: the user's emails, each once, ordered by
\* received_at descending (ties in the order the database happens to give)
GetEmailsByUserId(userId) ==
    {s \in Perms({WithLabels(e) : e \in EmailsOfUser(userId)}) : NewestFirst(s)}

GetEmailById(emailId, userId) == {e \in EmailsOfUser(userId) : e.id = emailId}

\* rank of a label name under the database's collation (orderBy(labels.name))
NameRank == ("home" :> 1) @@ ("Work" :> 2)

\* every result the query may return: the user's labels ordered by name
GetLabelsByUserId(userId) ==
    {s \in Perms({l \in labels : l.userId = userId}) :
        \A i, j \in DOMAIN s : i < j => NameRank[s[i].name] <= NameRank[s[j].name]}

GetLabelById(labelId, userId) == {l \in labels : l.id = labelId /\ l.userId = userId}

\* the lookup without its owner condition
GetWorkflowByIdAnyOwner(workflowId, userId) == {w \in workflows : w.id = workflowId}

GetWorkflowById(workflowId, userId) ==
    {w \in workflows : w.id = workflowId /\ w.userId = userId}

\* .limit(10) of getExecutionsByWorkflowId
ExecutionsLimit == 10

RECURSIVE NewestExecutionsFirst(_, _)
\* every result of ORDER BY executed_at DESC LIMIT limit over rows (rows
\* executed at the same time in the order the database happens to give)
NewestExecutionsFirst(rows, limit) ==
    IF rows = {} \/ limit = 0
    THEN {<<>>}
    ELSE UNION {{<<x>> \o rest : rest \in NewestExecutionsFirst(rows \ {x}, limit - 1)} :
                    x \in {y \in rows : \A z \in rows : y.executedAt >= z.executedAt}}

\* the rows of workflow_executions joined with a workflow of that id and owner
ExecutionsOfWorkflow(workflowId, userId) ==
    {x \in workflowExecutions :
        /\ x.workflowId = workflowId
        /\ \E w \in workflows : w.id = x.workflowId /\ w.userId = userId}

\* the query without its LIMIT
GetExecutionsByWorkflowIdNoLimit(workflowId, userId) ==
    NewestExecutionsFirst(ExecutionsOfWorkflow(workflowId, userId),
                          Cardinality(ExecutionsOfWorkflow(workflowId, userId)))

GetExecutionsByWorkflowId(workflowId, userId) ==
    NewestExecutionsFirst(ExecutionsOfWorkflow(workflowId, userId), ExecutionsLimit)

\* ------------------------------------------------------------ model calls
\* what the chat-completion call of a summary may do: fail, answer with empty
\* content, answer with text
SummaryOutcomes == {"error", "empty", "text"}

\* the summary call with the catch of classifyEmail: a failure is swallowed
GenerateWorkflowSummarySwallows(emailData, outcome) ==
    IF Len(emailData) = 0
    THEN [called |-> FALSE, threw |-> FALSE,
          summary |-> "No emails found matching the workflow criteria."]
    ELSE [called |-> TRUE, threw |-> FALSE,
          summary |-> IF outcome = "text" THEN "text" ELSE PlaceholderSummary]

\* the summary call without the fallback text for empty content
GenerateWorkflowSummaryNoFallback(emailData, outcome) ==
    IF Len(emailData) = 0
    THEN [called |-> FALSE, threw |-> FALSE,
          summary |-> "No emails found matching the workflow criteria."]
    ELSE IF outcome = "error"
    THEN [called |-> TRUE, threw |-> TRUE, summary |-> ""]
    ELSE [called |-> TRUE, threw |-> FALSE,
          summary |-> IF outcome = "empty" THEN "" ELSE "text"]

\* generateWorkflowSummary: [called, threw, summary]
GenerateWorkflowSummary(emailData, outcome) ==
    IF Len(emailData) = 0
    THEN [called |-> FALSE, threw |-> FALSE,
          summary |-> "No emails found matching the workflow criteria."]
    ELSE IF outcome = "error"
    THEN [called |-> TRUE, threw |-> TRUE, summary |-> ""]
    ELSE [called |-> TRUE, threw |-> FALSE,
          summary |-> IF outcome = "empty" THEN PlaceholderSummary ELSE "text"]

\* String.prototype.toLowerCase on the names of the model
ToLowerCase ==
    ("Work" :> "work") @@ ("work" :> "work") @@ ("home" :> "home") @@ ("Home" :> "home")
    @@ ("Spam" :> "spam")

\* what the chat-completion call of a classification may do: fail (or answer
\* with unparseable content), or answer with a list of names
ClassifierOutcomes ==
    {[threw |-> TRUE, names |-> <<>>]}
    \cup {[threw |-> FALSE, names |-> n] : n \in {<<>>, <<"work">>, <<"Spam", "Home", "work">>}}

\* the classifier comparing the names as they are, without toLowerCase
ClassifyEmailExactCase(availableLabels, outcome) ==
    LET Suggested(label) ==
            \E i \in DOMAIN outcome.names : outcome.names[i] = label.name
        matching == SelectSeq(availableLabels, Suggested)
    IN  IF Len(availableLabels) = 0
        THEN [called |-> FALSE, threw |-> FALSE, ids |-> <<>>]
        ELSE IF outcome.threw
        THEN [called |-> TRUE, threw |-> FALSE, ids |-> <<>>]
        ELSE [called |-> TRUE, threw |-> FALSE, ids |-> [i \in DOMAIN matching |-> matching[i].id]]

\* the classifier without its catch: a failure of the call reaches the handler
ClassifyEmailRethrows(availableLabels, outcome) ==
    LET Suggested(label) ==
            \E i \in DOMAIN outcome.names :
                ToLowerCase[outcome.names[i]] = ToLowerCase[label.name]
        matching == SelectSeq(availableLabels, Suggested)
    IN  IF Len(availableLabels) = 0
        THEN [called |-> FALSE, threw |-> FALSE, ids |-> <<>>]
        ELSE IF outcome.threw
        THEN [called |-> TRUE, threw |-> TRUE, ids |-> <<>>]
        ELSE [called |-> TRUE, threw |-> FALSE, ids |-> [i \in DOMAIN matching |-> matching[i].id]]

\* classifyEmail: [called, threw, ids]; the catch of openai.ts 45-48 turns a
\* failure of the call or of JSON.parse into the empty list, so threw is FALSE
ClassifyEmail(availableLabels, outcome) ==
    LET Suggested(label) ==
            \E i \in DOMAIN outcome.names :
                ToLowerCase[outcome.names[i]] = ToLowerCase[label.name]
        matching == SelectSeq(availableLabels, Suggested)
    IN  IF Len(availableLabels) = 0
        THEN [called |-> FALSE, threw |-> FALSE, ids |-> <<>>]
        ELSE IF outcome.threw
        THEN [called |-> TRUE, threw |-> FALSE, ids |-> <<>>]
        ELSE [called |-> TRUE, threw |-> FALSE, ids |-> [i \in DOMAIN matching |-> matching[i].id]]

\* --------------------------------------------------------- filter evaluator
\* the filter with every() in place of includes(): an email must carry all the
\* labels of the list
FilterEmailsAllLabels(filters, allEmails) ==
    LET Matches(email) ==
            \A i \in DOMAIN filters.labelIds :
                \E el \in email.labels : el.labelId = filters.labelIds[i]
    IN  IF filters.hasLabelIds /\ Len(filters.labelIds) > 0
        THEN SelectSeq(allEmails, Matches)
        ELSE allEmails

\* the filter without the length test: an empty list selects nothing
FilterEmailsNoLengthTest(filters, allEmails) ==
    LET Matches(email) == \E el \in email.labels : Includes(filters.labelIds, el.labelId)
    IN  IF filters.hasLabelIds THEN SelectSeq(allEmails, Matches) ELSE allEmails

\* routes.ts 340-345: the emails of allEmails the workflow's filters select
FilterEmails(filters, allEmails) ==
    LET Matches(email) == \E el \in email.labels : Includes(filters.labelIds, el.labelId)
    IN  IF filters.hasLabelIds /\ Len(filters.labelIds) > 0
        THEN SelectSeq(allEmails, Matches)
        ELSE allEmails

\* ----------------------------------------------------------- request slots
IdleReq ==
    [op |-> "none", pc |-> "idle", userId |-> "none", target |-> 0, startedAt |-> NullTime,
     workflow |-> NoWorkflow, allEmails |-> <<>>, filteredEmails |-> <<>>,
     summary |-> "", outcome |-> "none", modelCalls |-> 0, executions |-> {}, lastRunWritten |-> NullTime,
     labelsRead |-> <<>>, names |-> <<>>, suggested |-> <<>>, todo |-> <<>>, inserted |-> {},
     listed |-> <<>>, missing |-> FALSE, status |-> 0]

Finished(r) == req[r].pc \in {"idle", "done"}
\* a request is accepted in a free slot while the run has requests left
Accepts(r) == Finished(r) /\ served < MaxRequests

\* the slot after a handler that has sent `status`
Responded(slot, status) == [slot EXCEPT !.pc = "done", !.status = status]
\* a request of the execute or classify handler, which arrived at time t
NewReq(op, userId, target, t) ==
    [IdleReq EXCEPT !.op = op, !.userId = userId, !.target = target, !.startedAt = t]
\* the response of a handler that awaits one storage call
Answer(op, userId, status) ==
    Responded([IdleReq EXCEPT !.op = op, !.userId = userId], status)
\* the slot of a request that named a row by id; missing: no row of that id
\* belongs to the caller
Referring(slot, found) == [slot EXCEPT !.missing = (found = {})]

\* ------------------------------------------------------------------- Init
SeedEmails ==
    {[id |-> 1, emailAccountId |-> "a1", receivedAt |-> 2, isRead |-> FALSE],
     [id |-> 2, emailAccountId |-> "a1", receivedAt |-> 1, isRead |-> FALSE]}
SeedLabels == {[id |-> 1, userId |-> "u1", name |-> "Work"]}
\* email 1 carries label 1 (assigned by hand), email 2 carries no label
SeedEmailLabels == {[id |-> 1, emailId |-> 1, labelId |-> 1, isAuto |-> FALSE]}

\* a weekly workflow of u1 over label 1, created at instant 1 and never run
SeedWorkflows ==
    {[id |-> 1, userId |-> "u1", frequency |-> "weekly",
      filters |-> [hasLabelIds |-> TRUE, labelIds |-> <<1>>],
      lastRunAt |-> NullTime, nextRunAt |-> 8]}

Init ==
    /\ now = 1
    /\ emails = SeedEmails
    /\ labels = SeedLabels
    /\ emailLabels = SeedEmailLabels
    /\ workflows = SeedWorkflows
    /\ workflowExecutions = {}
    /\ nextId = [email |-> 2, label |-> 1, emailLabel |-> 1, workflow |-> 1, execution |-> 0]
    /\ served = 0
    /\ req = [r \in Reqs |-> IdleReq]

\* ------------------------------------------------------------------ clock
\* the times new Date() / defaultNow() may return: the clock never runs
\* backwards, and at most one instant passes between two readings
ClockReadings == {t \in now..(now + 1) : t <= MaxTime}

\* --------------------------------------------------- POST /api/workflows
\* filters: req.body.labelIds ? { labelIds: req.body.labelIds } : {}
\* (an array, also the empty one, is truthy)
FiltersOfBody(body) ==
    IF body.hasLabelIds THEN [hasLabelIds |-> TRUE, labelIds |-> body.labelIds] ELSE NoFilters

\* days added to now for a weekly and for a biweekly workflow
WeeklyDays == 7
BiweeklyDays == 14
\* Date.setDate(getDate() + days); the clock counts days
AddDays(t, days) == t + days

\* routes.ts 264-270: nextRunAt starts as a copy of now and is moved for the
\* two frequencies the handler knows
NextRunAt(t, frequency) ==
    IF frequency = "weekly" THEN AddDays(t, WeeklyDays)
    ELSE IF frequency = "biweekly" THEN AddDays(t, BiweeklyDays)
    ELSE t

\* insertWorkflowSchema.parse: frequency is a required string (varchar, not
\* null); a body without it is answered 400 and nothing is stored
CreateWorkflow(r, userId, frequency, body) ==
    /\ Accepts(r)
    /\ \E t \in ClockReadings :
        /\ now' = t
        /\ IF frequency = NoFrequency
           THEN /\ req' = [req EXCEPT ![r] = Answer("createWorkflow", userId, 400)]
                /\ UNCHANGED <<workflows, nextId>>
           ELSE /\ workflows' = workflows \cup
                        {[id |-> nextId.workflow + 1, userId |-> userId, frequency |-> frequency,
                          filters |-> FiltersOfBody(body), lastRunAt |-> NullTime,
                          nextRunAt |-> NextRunAt(t, frequency)]}
                /\ nextId' = [nextId EXCEPT !.workflow = @ + 1]
                /\ req' = [req EXCEPT ![r] = Answer("createWorkflow", userId, 200)]
    /\ served' = served + 1
    /\ UNCHANGED <<emails, labels, emailLabels, workflowExecutions>>

\* ------------------------------------- POST /api/workflows/:id/execute
\* await storage.getWorkflowById
ExecLoad(r, userId, workflowId) ==
    /\ Accepts(r)
    /\ served' = served + 1
    /\ \E t \in ClockReadings :
        LET found == GetWorkflowById(workflowId, userId)
            new == NewReq("execute", userId, workflowId, t)
        IN  /\ now' = t
            /\ IF found = {}
               THEN req' = [req EXCEPT ![r] = Responded(Referring(new, found), 404)]
               ELSE \E w \in found :
                        req' = [req EXCEPT ![r] = [new EXCEPT !.pc = "select", !.workflow = w]]
    /\ UNCHANGED db

\* the handler without its empty-selection guard
EmptySelectionNever(filteredEmails) == FALSE

\* routes.ts 347: if (filteredEmails.length === 0)
EmptySelection(filteredEmails) == Len(filteredEmails) = 0

\* await storage.getEmailsByUserId, the filter and the empty-selection guard
ExecSelect(r) ==
    /\ req[r].op = "execute" /\ req[r].pc = "select"
    /\ \E allEmails \in GetEmailsByUserId(req[r].workflow.userId) :
        LET filteredEmails == FilterEmails(req[r].workflow.filters, allEmails)
            got == [req[r] EXCEPT !.allEmails = allEmails, !.filteredEmails = filteredEmails]
        IN  IF EmptySelection(filteredEmails)
            THEN req' = [req EXCEPT ![r] = Responded(got, 400)]
            ELSE req' = [req EXCEPT ![r] = [got EXCEPT !.pc = "summarize"]]
    /\ UNCHANGED <<now, db, served>>

\* the summary step that asks the model again after a failure
ExecSummarizeRetries(r) ==
    /\ req[r].op = "execute" /\ req[r].pc = "summarize"
    /\ \E outcome \in SummaryOutcomes :
        LET res == GenerateWorkflowSummary(req[r].filteredEmails, outcome)
            got == [req[r] EXCEPT !.modelCalls = @ + (IF res.called THEN 1 ELSE 0),
                                  !.outcome = IF res.called THEN outcome ELSE "none"]
        IN  IF res.threw
            THEN req' = [req EXCEPT ![r] = IF got.modelCalls < 2 THEN got ELSE Responded(got, 500)]
            ELSE req' = [req EXCEPT ![r] = [got EXCEPT !.pc = "record", !.summary = res.summary]]
    /\ UNCHANGED <<now, db, served>>

\* await generateWorkflowSummary
ExecSummarize(r) ==
    /\ req[r].op = "execute" /\ req[r].pc = "summarize"
    /\ \E outcome \in SummaryOutcomes :
        LET res == GenerateWorkflowSummary(req[r].filteredEmails, outcome)
            got == [req[r] EXCEPT !.modelCalls = @ + (IF res.called THEN 1 ELSE 0),
                                  !.outcome = IF res.called THEN outcome ELSE "none"]
        IN  IF res.threw
            THEN req' = [req EXCEPT ![r] = Responded(got, 500)]
            ELSE req' = [req EXCEPT ![r] = [got EXCEPT !.pc = "record", !.summary = res.summary]]
    /\ UNCHANGED <<now, db, served>>

\* the row with the count of all the emails fetched
NewExecutionCountsAll(q, t) ==
    [id |-> nextId.execution + 1, workflowId |-> q.workflow.id, summary |-> q.summary,
     emailCount |-> Len(q.allEmails), executedAt |-> t]

\* the row keyed by its workflow: one execution per workflow
NewExecutionPerWorkflow(q, t) ==
    [id |-> q.workflow.id, workflowId |-> q.workflow.id, summary |-> q.summary,
     emailCount |-> Len(q.filteredEmails), executedAt |-> t]

\* routes.ts 360-364: the row the handler inserts; id and executed_at are the
\* column defaults
NewExecution(q, t) ==
    [id |-> nextId.execution + 1, workflowId |-> q.workflow.id, summary |-> q.summary,
     emailCount |-> Len(q.filteredEmails), executedAt |-> t]

\* the insert that writes its row and then reports a failure
ExecRecordWritesThenFails(r) ==
    /\ req[r].op = "execute" /\ req[r].pc = "record"
    /\ \E storeOk \in BOOLEAN, t \in ClockReadings :
        LET execution == NewExecution(req[r], t)
        IN  IF \E w \in workflows : w.id = execution.workflowId
            THEN /\ now' = t
                 /\ workflowExecutions' = workflowExecutions \cup {execution}
                 /\ nextId' = [nextId EXCEPT !.execution = @ + 1]
                 /\ req' = [req EXCEPT ![r] =
                        IF storeOk THEN [@ EXCEPT !.pc = "update", !.executions = @ \cup {execution}]
                        ELSE Responded(@, 500)]
            ELSE /\ req' = [req EXCEPT ![r] = Responded(@, 500)]
                 /\ UNCHANGED <<now, workflowExecutions, nextId>>
    /\ UNCHANGED <<emails, labels, emailLabels, workflows, served>>

\* storage.createWorkflowExecution: the insert fails when the workflow row is
\* gone (foreign key) or the store is unavailable
ExecRecord(r) ==
    /\ req[r].op = "execute" /\ req[r].pc = "record"
    /\ \E storeOk \in BOOLEAN, t \in ClockReadings :
        LET execution == NewExecution(req[r], t)
        IN  IF storeOk /\ \E w \in workflows : w.id = execution.workflowId
            THEN /\ now' = t
                 /\ workflowExecutions' = workflowExecutions \cup {execution}
                 /\ nextId' = [nextId EXCEPT !.execution = @ + 1]
                 /\ req' = [req EXCEPT ![r] = [@ EXCEPT !.pc = "update",
                                                        !.executions = @ \cup {execution}]]
            ELSE /\ req' = [req EXCEPT ![r] = Responded(@, 500)]
                 /\ UNCHANGED <<now, workflowExecutions, nextId>>
    /\ UNCHANGED <<emails, labels, emailLabels, workflows, served>>

\* Partial<InsertWorkflow>: the one column an update of the model sets
NoData ==
    [field |-> "none", filters |-> NoFilters, userId |-> "none", frequency |-> NoFrequency,
     lastRunAt |-> NullTime]

\* the update that moves nextRunAt on by the frequency when it sets lastRunAt
SetColumnsAdvancing(w, data) ==
    CASE data.field = "filters" -> [w EXCEPT !.filters = data.filters]
      [] data.field = "userId" -> [w EXCEPT !.userId = data.userId]
      [] data.field = "frequency" -> [w EXCEPT !.frequency = data.frequency]
      [] data.field = "lastRunAt" ->
            [w EXCEPT !.lastRunAt = data.lastRunAt,
                      !.nextRunAt = NextRunAt(data.lastRunAt, w.frequency)]
      [] OTHER -> w

\* db.update(workflows).set(data) on one row
SetColumns(w, data) ==
    CASE data.field = "filters" -> [w EXCEPT !.filters = data.filters]
      [] data.field = "userId" -> [w EXCEPT !.userId = data.userId]
      [] data.field = "frequency" -> [w EXCEPT !.frequency = data.frequency]
      [] data.field = "lastRunAt" -> [w EXCEPT !.lastRunAt = data.lastRunAt]
      [] OTHER -> w

\* storage.updateWorkflow(workflowId, userId, data): the rows of that id and
\* owner with the columns of data set
UpdateWorkflowRows(workflowId, userId, data) ==
    {IF w.id = workflowId /\ w.userId = userId THEN SetColumns(w, data) ELSE w : w \in workflows}

\* an update that sets no column
LastRunDataEmpty(t) == NoData

\* routes.ts 367-369: the data of the update, { lastRunAt: new Date() }
LastRunData(t) == [NoData EXCEPT !.field = "lastRunAt", !.lastRunAt = t]

\* the two writes in one transaction: a failed update takes the inserted
\* execution back
ExecUpdateRollsBack(r) ==
    /\ req[r].op = "execute" /\ req[r].pc = "update"
    /\ \E storeOk \in BOOLEAN, t \in ClockReadings :
        LET hit == GetWorkflowById(req[r].workflow.id, req[r].userId) # {}
        IN  IF storeOk
            THEN /\ now' = t
                 /\ workflows' = UpdateWorkflowRows(req[r].workflow.id, req[r].userId, LastRunData(t))
                 /\ req' = [req EXCEPT ![r] =
                        Responded([@ EXCEPT !.lastRunWritten = IF hit THEN t ELSE NullTime], 200)]
                 /\ UNCHANGED workflowExecutions
            ELSE /\ req' = [req EXCEPT ![r] = Responded(@, 500)]
                 /\ workflowExecutions' = workflowExecutions \ req[r].executions
                 /\ UNCHANGED <<now, workflows>>
    /\ UNCHANGED <<emails, labels, emailLabels, nextId, served>>

\* storage.updateWorkflow({ lastRunAt: new Date() }) and res.json(execution)
ExecUpdate(r) ==
    /\ req[r].op = "execute" /\ req[r].pc = "update"
    /\ \E storeOk \in BOOLEAN, t \in ClockReadings :
        LET hit == GetWorkflowById(req[r].workflow.id, req[r].userId) # {}
        IN  IF storeOk
            THEN /\ now' = t
                 /\ workflows' = UpdateWorkflowRows(req[r].workflow.id, req[r].userId, LastRunData(t))
                 /\ req' = [req EXCEPT ![r] =
                        Responded([@ EXCEPT !.lastRunWritten = IF hit THEN t ELSE NullTime], 200)]
            ELSE /\ req' = [req EXCEPT ![r] = Responded(@, 500)]
                 /\ UNCHANGED <<now, workflows>>
    /\ UNCHANGED <<emails, labels, emailLabels, workflowExecutions, nextId, served>>

\* ------------------------------------ GET /api/workflows/:id/executions
\* storage.getExecutionsByWorkflowId and res.json(executions)
ListExecutions(r, userId, workflowId) ==
    /\ Accepts(r)
    /\ \E executions \in GetExecutionsByWorkflowId(workflowId, userId) :
        req' = [req EXCEPT ![r] =
                 [Referring(Answer("listExecutions", userId, 200),
                            GetWorkflowById(workflowId, userId))
                    EXCEPT !.target = workflowId, !.listed = executions]]
    /\ served' = served + 1
    /\ UNCHANGED <<now, db>>

\* ------------------------------------------- PATCH, DELETE /api/workflows/:id
\* the columns a PATCH body may set (insertWorkflowSchema.partial())
WorkflowPatches ==
    {[NoData EXCEPT !.field = "filters", !.filters = f] : f \in FiltersInputs}
    \cup {[NoData EXCEPT !.field = "userId", !.userId = u] : u \in Users}
    \cup {[NoData EXCEPT !.field = "frequency", !.frequency = f] : f \in FrequencyInputs}

UpdateWorkflow(r, userId, workflowId, patch) ==
    /\ Accepts(r)
    /\ workflows' = UpdateWorkflowRows(workflowId, userId, patch)
    /\ req' = [req EXCEPT ![r] = Referring(Answer("updateWorkflow", userId, 200),
                                            GetWorkflowById(workflowId, userId))]
    /\ served' = served + 1
    /\ UNCHANGED <<now, emails, labels, emailLabels, workflowExecutions, nextId>>

\* the delete that removes the executions of the workflow id whoever owns the
\* workflow
DeleteWorkflowExecutionsOfId(r, userId, workflowId) ==
    /\ Accepts(r)
    /\ workflows' = workflows \ GetWorkflowById(workflowId, userId)
    /\ workflowExecutions' = {x \in workflowExecutions : x.workflowId # workflowId}
    /\ req' = [req EXCEPT ![r] = Referring(Answer("deleteWorkflow", userId, 200),
                                            GetWorkflowById(workflowId, userId))]
    /\ served' = served + 1
    /\ UNCHANGED <<now, emails, labels, emailLabels, nextId>>

\* storage.deleteWorkflow; workflow_executions rows go with it (onDelete cascade)
DeleteWorkflow(r, userId, workflowId) ==
    /\ Accepts(r)
    /\ LET gone == GetWorkflowById(workflowId, userId)
       IN  /\ workflows' = workflows \ gone
           /\ workflowExecutions' =
                {x \in workflowExecutions : \A w \in gone : x.workflowId # w.id}
    /\ req' = [req EXCEPT ![r] = Referring(Answer("deleteWorkflow", userId, 200),
                                            GetWorkflowById(workflowId, userId))]
    /\ served' = served + 1
    /\ UNCHANGED <<now, emails, labels, emailLabels, nextId>>

\* ------------------------------------------------------------ label routes
\* POST /api/labels
CreateLabel(r, userId, name) ==
    /\ Accepts(r)
    /\ labels' = labels \cup {[id |-> nextId.label + 1, userId |-> userId, name |-> name]}
    /\ nextId' = [nextId EXCEPT !.label = @ + 1]
    /\ req' = [req EXCEPT ![r] = Answer("createLabel", userId, 200)]
    /\ served' = served + 1
    /\ UNCHANGED <<now, emails, emailLabels, workflows, workflowExecutions>>

\* the columns a PUT body may set (insertLabelSchema.partial())
LabelPatches ==
    {[field |-> "name", name |-> n, userId |-> "none"] : n \in LabelNames}
    \cup {[field |-> "userId", name |-> "", userId |-> u] : u \in Users}

\* PUT /api/labels/:id: storage.updateLabel
UpdateLabel(r, userId, labelId, patch) ==
    /\ Accepts(r)
    /\ labels' = {IF l.id = labelId /\ l.userId = userId
                  THEN IF patch.field = "name" THEN [l EXCEPT !.name = patch.name]
                                               ELSE [l EXCEPT !.userId = patch.userId]
                  ELSE l : l \in labels}
    /\ req' = [req EXCEPT ![r] = Referring(Answer("updateLabel", userId, 200),
                                            GetLabelById(labelId, userId))]
    /\ served' = served + 1
    /\ UNCHANGED <<now, emails, emailLabels, workflows, workflowExecutions, nextId>>

\* the delete that also takes the label's id out of the stored filters
DeleteLabelCleansFilters(r, userId, labelId) ==
    /\ Accepts(r)
    /\ LET gone == GetLabelById(labelId, userId)
           Kept(ids) == SelectSeq(ids, LAMBDA id : \A l \in gone : id # l.id)
       IN  /\ labels' = labels \ gone
           /\ emailLabels' = {el \in emailLabels : \A l \in gone : el.labelId # l.id}
           /\ workflows' = {[w EXCEPT !.filters.labelIds = Kept(@)] : w \in workflows}
    /\ req' = [req EXCEPT ![r] = Referring(Answer("deleteLabel", userId, 200),
                                            GetLabelById(labelId, userId))]
    /\ served' = served + 1
    /\ UNCHANGED <<now, emails, workflowExecutions, nextId>>

\* DELETE /api/labels/:id: storage.deleteLabel; email_labels rows of the label
\* go with it (onDelete cascade)
DeleteLabel(r, userId, labelId) ==
    /\ Accepts(r)
    /\ LET gone == GetLabelById(labelId, userId)
       IN  /\ labels' = labels \ gone
           /\ emailLabels' = {el \in emailLabels : \A l \in gone : el.labelId # l.id}
    /\ req' = [req EXCEPT ![r] = Referring(Answer("deleteLabel", userId, 200),
                                            GetLabelById(labelId, userId))]
    /\ served' = served + 1
    /\ UNCHANGED <<now, emails, workflows, workflowExecutions, nextId>>

\* ------------------------------------------------------ email label routes
\* db.insert(emailLabels).values(data).onConflictDoNothing(): the row is left
\* out when it conflicts with a unique constraint of email_labels, and the
\* table has one, the primary key id
InsertEmailLabel(row) ==
    IF \E el \in emailLabels : el.id = row.id THEN emailLabels ELSE emailLabels \cup {row}

\* storage.addLabelToEmail, the lookups: getEmailById and getLabelById each
\* find a row of the caller
VerifyEmailAndLabel(data, userId) ==
    GetEmailById(data.emailId, userId) # {} /\ GetLabelById(data.labelId, userId) # {}

\* an email_labels table without its foreign keys
ReferencesExistUnchecked(row) == TRUE

\* the foreign keys of email_labels: email_id references emails.id and
\* label_id references labels.id
ReferencesExist(row) ==
    /\ \E e \in emails : e.id = row.emailId
    /\ \E l \in labels : l.id = row.labelId

\* storage.addLabelToEmail, the insert: [threw, emailLabels, inserted]; it
\* throws when the store is unavailable or a foreign key is violated
AddLabelToEmail(data, storeOk) ==
    LET row == [id |-> nextId.emailLabel + 1, emailId |-> data.emailId,
                labelId |-> data.labelId, isAuto |-> data.isAuto]
    IN  IF ~storeOk \/ ~ReferencesExist(row)
        THEN [threw |-> TRUE, emailLabels |-> emailLabels, inserted |-> {}]
        ELSE [threw |-> FALSE, emailLabels |-> InsertEmailLabel(row),
              inserted |-> InsertEmailLabel(row) \ emailLabels]

\* POST /api/emails/:emailId/labels, up to the lookups of addLabelToEmail:
\* Error("Email or label not found") reaches the catch of the handler (500)
AddLabel(r, userId, emailId, labelId) ==
    /\ Accepts(r)
    /\ LET data == [emailId |-> emailId, labelId |-> labelId, isAuto |-> FALSE]
           new == [IdleReq EXCEPT !.op = "addLabel", !.userId = userId, !.target = emailId,
                                  !.todo = <<labelId>>]
       IN  req' = [req EXCEPT ![r] =
                IF VerifyEmailAndLabel(data, userId) THEN [new EXCEPT !.pc = "insert"]
                ELSE [Answer("addLabel", userId, 500) EXCEPT !.missing = TRUE]]
    /\ served' = served + 1
    /\ UNCHANGED <<now, db>>

\* POST /api/emails/:emailId/labels, the insert of addLabelToEmail and the
\* response
AddLabelInsert(r) ==
    /\ req[r].op = "addLabel" /\ req[r].pc = "insert"
    /\ \E storeOk \in BOOLEAN :
        LET res == AddLabelToEmail([emailId |-> req[r].target, labelId |-> Head(req[r].todo),
                                    isAuto |-> FALSE], storeOk)
            sent == Answer("addLabel", req[r].userId, IF res.threw THEN 500 ELSE 200)
        IN  /\ emailLabels' = res.emailLabels
            /\ nextId' = [nextId EXCEPT !.emailLabel = @ + Cardinality(res.inserted)]
            /\ req' = [req EXCEPT ![r] = [sent EXCEPT !.inserted = res.inserted]]
    /\ UNCHANGED <<now, emails, labels, workflows, workflowExecutions, served>>

\* DELETE /api/emails/:emailId/labels/:labelId: storage.removeLabelFromEmail
RemoveLabel(r, userId, emailId, labelId) ==
    /\ Accepts(r)
    /\ LET threw == GetEmailById(emailId, userId) = {} \/ GetLabelById(labelId, userId) = {}
       IN  /\ emailLabels' = IF threw THEN emailLabels
                ELSE {el \in emailLabels : ~(el.emailId = emailId /\ el.labelId = labelId)}
           /\ req' = [req EXCEPT ![r] =
                    [Answer("removeLabel", userId, IF threw THEN 500 ELSE 200)
                        EXCEPT !.missing = threw]]
    /\ served' = served + 1
    /\ UNCHANGED <<now, emails, labels, workflows, workflowExecutions, nextId>>

\* ------------------------------------------------------------------ emails
\* storage.createEmail (POST /api/emails, seedTestData): the row is stored
\* under the account the caller names
CreateEmail(r, userId, emailAccountId, receivedAt) ==
    /\ Accepts(r)
    /\ emails' = emails \cup {[id |-> nextId.email + 1, emailAccountId |-> emailAccountId,
                               receivedAt |-> receivedAt, isRead |-> FALSE]}
    /\ nextId' = [nextId EXCEPT !.email = @ + 1]
    /\ req' = [req EXCEPT ![r] = Answer("createEmail", userId, 200)]
    /\ served' = served + 1
    /\ UNCHANGED <<now, labels, emailLabels, workflows, workflowExecutions>>

\* GET /api/emails/:id
GetEmail(r, userId, emailId) ==
    /\ Accepts(r)
    /\ LET found == GetEmailById(emailId, userId)
       IN  req' = [req EXCEPT ![r] =
                    Referring(Answer("getEmail", userId, IF found = {} THEN 404 ELSE 200), found)]
    /\ served' = served + 1
    /\ UNCHANGED <<now, db>>

\* PATCH /api/emails/:id/read: storage.markEmailAsRead throws
\* Error("Email not found"), which the handler answers with 500
MarkEmailAsRead(r, userId, emailId, isRead) ==
    /\ Accepts(r)
    /\ LET found == GetEmailById(emailId, userId)
       IN  /\ emails' = IF found = {} THEN emails
                ELSE {IF e.id = emailId THEN [e EXCEPT !.isRead = isRead] ELSE e : e \in emails}
           /\ req' = [req EXCEPT ![r] =
                    Referring(Answer("markEmailAsRead", userId, IF found = {} THEN 500 ELSE 200),
                              found)]
    /\ served' = served + 1
    /\ UNCHANGED <<now, labels, emailLabels, workflows, workflowExecutions, nextId>>

\* ------------------------------------------ POST /api/emails/:id/classify
\* await storage.getEmailById
ClassifyLoad(r, userId, emailId) ==
    /\ Accepts(r)
    /\ served' = served + 1
    /\ LET new == NewReq("classify", userId, emailId, now)
       IN  IF GetEmailById(emailId, userId) = {}
           THEN req' = [req EXCEPT ![r] = Responded(Referring(new, {}), 404)]
           ELSE req' = [req EXCEPT ![r] = [new EXCEPT !.pc = "labels"]]
    /\ UNCHANGED <<now, db>>

\* the handler without its no-labels guard
NoLabelsNever(ls) == FALSE

\* routes.ts 140: if (labels.length === 0)
NoLabels(ls) == Len(ls) = 0

\* await storage.getLabelsByUserId and the no-labels guard
ClassifyLabels(r) ==
    /\ req[r].op = "classify" /\ req[r].pc = "labels"
    /\ \E ls \in GetLabelsByUserId(req[r].userId) :
        IF NoLabels(ls)
        THEN req' = [req EXCEPT ![r] = Responded(@, 400)]
        ELSE req' = [req EXCEPT ![r] = [@ EXCEPT !.pc = "classify", !.labelsRead = ls]]
    /\ UNCHANGED <<now, db, served>>

\* the handler whose catch sends nothing
ClassifyCallNoCatch(r) ==
    /\ req[r].op = "classify" /\ req[r].pc = "classify"
    /\ \E outcome \in ClassifierOutcomes :
        LET res == ClassifyEmail(req[r].labelsRead, outcome)
            got == [req[r] EXCEPT !.modelCalls = @ + (IF res.called THEN 1 ELSE 0),
                                  !.outcome = IF ~res.called THEN "none"
                                              ELSE IF outcome.threw THEN "error" ELSE "text",
                                  !.names = outcome.names,
                                  !.suggested = res.ids, !.todo = res.ids]
        IN  IF res.threw \/ Len(res.ids) = 0
            THEN req' = [req EXCEPT ![r] = [got EXCEPT !.pc = "caught"]]
            ELSE req' = [req EXCEPT ![r] = [got EXCEPT !.pc = "add"]]
    /\ UNCHANGED <<now, db, served>>

\* await classifyEmail; an error thrown by it reaches the catch of the handler
\* (500); with nothing suggested the loop is skipped and the response sent
ClassifyCall(r) ==
    /\ req[r].op = "classify" /\ req[r].pc = "classify"
    /\ \E outcome \in ClassifierOutcomes :
        LET res == ClassifyEmail(req[r].labelsRead, outcome)
            got == [req[r] EXCEPT !.modelCalls = @ + (IF res.called THEN 1 ELSE 0),
                                  !.outcome = IF ~res.called THEN "none"
                                              ELSE IF outcome.threw THEN "error" ELSE "text",
                                  !.names = outcome.names,
                                  !.suggested = res.ids, !.todo = res.ids]
        IN  IF res.threw
            THEN req' = [req EXCEPT ![r] = Responded(got, 500)]
            ELSE IF Len(res.ids) = 0
            THEN req' = [req EXCEPT ![r] = Responded(got, 200)]
            ELSE req' = [req EXCEPT ![r] = [got EXCEPT !.pc = "add"]]
    /\ UNCHANGED <<now, db, served>>

\* one turn of the loop, up to the lookups of addLabelToEmail for the next
\* suggested label: Error("Email or label not found") ends the loop in the
\* catch of the handler (500)
ClassifyVerify(r) ==
    /\ req[r].op = "classify" /\ req[r].pc = "add"
    /\ LET data == [emailId |-> req[r].target, labelId |-> Head(req[r].todo), isAuto |-> TRUE]
       IN  req' = [req EXCEPT ![r] =
                IF VerifyEmailAndLabel(data, req[r].userId) THEN [@ EXCEPT !.pc = "insert"]
                ELSE Responded([@ EXCEPT !.missing = TRUE], 500)]
    /\ UNCHANGED <<now, db, served>>

\* the loop turn that stores the association as one made by hand
ClassifyInsertByHand(r) ==
    /\ req[r].op = "classify" /\ req[r].pc = "insert"
    /\ \E storeOk \in BOOLEAN :
        LET res == AddLabelToEmail([emailId |-> req[r].target, labelId |-> Head(req[r].todo),
                                    isAuto |-> FALSE], storeOk)
            got == [req[r] EXCEPT !.todo = Tail(@), !.inserted = @ \cup res.inserted]
        IN  /\ emailLabels' = res.emailLabels
            /\ nextId' = [nextId EXCEPT !.emailLabel = @ + Cardinality(res.inserted)]
            /\ req' = [req EXCEPT ![r] =
                     IF res.threw THEN Responded(req[r], 500)
                     ELSE IF Len(got.todo) = 0 THEN Responded(got, 200)
                     ELSE [got EXCEPT !.pc = "add"]]
    /\ UNCHANGED <<now, emails, labels, workflows, workflowExecutions, served>>

\* the rest of the loop turn: the insert of addLabelToEmail; an error ends
\* the loop in the catch of the handler (500); after the last label the
\* response is sent
ClassifyInsert(r) ==
    /\ req[r].op = "classify" /\ req[r].pc = "insert"
    /\ \E storeOk \in BOOLEAN :
        LET res == AddLabelToEmail([emailId |-> req[r].target, labelId |-> Head(req[r].todo),
                                    isAuto |-> TRUE], storeOk)
            got == [req[r] EXCEPT !.todo = Tail(@), !.inserted = @ \cup res.inserted]
        IN  /\ emailLabels' = res.emailLabels
            /\ nextId' = [nextId EXCEPT !.emailLabel = @ + Cardinality(res.inserted)]
            /\ req' = [req EXCEPT ![r] =
                     IF res.threw THEN Responded(req[r], 500)
                     ELSE IF Len(got.todo) = 0 THEN Responded(got, 200)
                     ELSE [got EXCEPT !.pc = "add"]]
    /\ UNCHANGED <<now, emails, labels, workflows, workflowExecutions, served>>

Serve(S) ==
    \E r \in S :
        \/ \E u \in Users, b \in WorkflowBodyInputs : CreateWorkflow(r, u, b.frequency, b.filters)
        \/ \E u \in Users, w \in WorkflowIdInputs, patch \in WorkflowPatches : UpdateWorkflow(r, u, w, patch)
        \/ \E u \in Users, w \in WorkflowIdInputs : DeleteWorkflow(r, u, w)
        \/ \E u \in Users, w \in WorkflowIdInputs : ExecLoad(r, u, w)
        \/ ExecSelect(r)
        \/ ExecSummarize(r)
        \/ ExecRecord(r)
        \/ ExecUpdate(r)
        \/ \E u \in Users, n \in LabelNames : CreateLabel(r, u, n)
        \/ \E u \in Users, l \in LabelIdInputs, patch \in LabelPatches : UpdateLabel(r, u, l, patch)
        \/ \E u \in Users, l \in LabelIdInputs : DeleteLabel(r, u, l)
        \/ \E u \in Users, e \in EmailIdInputs, l \in LabelIdInputs : AddLabel(r, u, e, l)
        \/ AddLabelInsert(r)
        \/ \E u \in Users, e \in EmailIdInputs, l \in LabelIdInputs : RemoveLabel(r, u, e, l)
        \/ \E u \in Users, a \in Accounts, t \in ReceivedAtInputs : CreateEmail(r, u, a, t)
        \/ \E u \in Users, e \in EmailIdInputs : GetEmail(r, u, e)
        \/ \E u \in Users, e \in EmailIdInputs, b \in BOOLEAN : MarkEmailAsRead(r, u, e, b)
        \/ \E u \in Users, w \in WorkflowIdInputs : ListExecutions(r, u, w)
        \/ \E u \in Users, e \in EmailIdInputs : ClassifyLoad(r, u, e)
        \/ ClassifyLabels(r)
        \/ ClassifyCall(r)
        \/ ClassifyVerify(r)
        \/ ClassifyInsert(r)

Next == Serve(SerialReqs)

Spec == Init /\ [][Next]_vars

\* ---------------------------------------------------- overlapping requests
\* the handlers are async functions on one event loop: between two awaits of
\* a request the steps of another request may run.  Each slot has one request
\* left to serve.
OverlapInit ==
    /\ now = 1
    /\ emails = SeedEmails
    /\ labels = SeedLabels
    /\ emailLabels = SeedEmailLabels
    /\ workflows = SeedWorkflows
    /\ workflowExecutions = {}
    /\ nextId = [email |-> 2, label |-> 1, emailLabel |-> 1, workflow |-> 1, execution |-> 0]
    /\ served = MaxRequests - Cardinality(Reqs)
    /\ req = [r \in Reqs |-> IdleReq]

OverlapNext == Serve(Reqs)

SpecOverlap == OverlapInit /\ [][OverlapNext]_vars

\* the continuation of request r after an await: every storage call and every
\* model call of the handlers settles (resolves or rejects), and the event
\* loop then runs the continuation
Resume(r) ==
    \/ ExecSelect(r) \/ ExecSummarize(r) \/ ExecRecord(r) \/ ExecUpdate(r)
    \/ ClassifyLabels(r) \/ ClassifyCall(r) \/ ClassifyVerify(r) \/ ClassifyInsert(r)
    \/ AddLabelInsert(r)

SpecLive == OverlapInit /\ [][OverlapNext]_vars /\ \A r \in Reqs : WF_vars(Resume(r))

\* ------------------------------------------------ listing of executions
\* a second workflow, of u2
OtherWorkflow ==
    [id |-> 2, userId |-> "u2", frequency |-> "biweekly", filters |-> NoFilters,
     lastRunAt |-> NullTime, nextRunAt |-> 15]

\* workflow_executions after n runs of workflow 1 and then one run of workflow
\* 2; paired: two runs at a time were recorded at the same instant
ExecutionsAfter(n, paired) ==
    {[id |-> i, workflowId |-> 1, summary |-> "text", emailCount |-> 1,
      executedAt |-> IF paired THEN (i + 1) \div 2 ELSE i] : i \in 1..n}
    \cup {[id |-> n + 1, workflowId |-> 2, summary |-> "text", emailCount |-> 1,
           executedAt |-> n + 1]}

\* the database after up to MaxExecutions runs of workflow 1
ListInit ==
    /\ emails = SeedEmails
    /\ labels = SeedLabels
    /\ emailLabels = SeedEmailLabels
    /\ workflows = SeedWorkflows \cup {OtherWorkflow}
    /\ \E n \in 0..MaxExecutions, paired \in BOOLEAN :
        /\ workflowExecutions = ExecutionsAfter(n, paired)
        /\ now = n + 1
        /\ nextId = [email |-> 2, label |-> 1, emailLabel |-> 1, workflow |-> 2,
                     execution |-> n + 1]
    /\ served = 0
    /\ req = [r \in Reqs |-> IdleReq]

ListNext ==
    \E r \in SerialReqs, u \in Users, w \in WorkflowIdInputs : ListExecutions(r, u, w)

SpecList == ListInit /\ [][ListNext]_vars

\* ================================================================= claims
\* the request in slot q has run the Select step of the execute handler
SelectDone(q) ==
    /\ q.op = "execute"
    /\ \/ q.pc \in {"summarize", "record", "update"}
       \/ q.pc = "done" /\ q.status # 404

Selected(q, emailId) == \E i \in DOMAIN q.filteredEmails : q.filteredEmails[i].id = emailId

NonEmptyLabelIds(q) ==
    q.workflow.filters.hasLabelIds /\ Len(q.workflow.filters.labelIds) > 0

\* C1: with a non-empty labelIds list, an email of the workflow's owner is
\* selected if and only if one of its email_labels rows has a label id of the
\* list.
C1_SelectedIffSomeLabelListed ==
    \A r \in Reqs :
        SelectDone(req[r]) /\ NonEmptyLabelIds(req[r]) =>
            \A e \in EmailsOfUser(req[r].workflow.userId) :
                Selected(req[r], e.id) <=>
                    \E el \in emailLabels :
                        /\ el.emailId = e.id
                        /\ el.labelId \in Range(req[r].workflow.filters.labelIds)

\* an execute call whose list of two label ids selected an email carrying one
\* of them and left out an email of the same user
C1_Witness ==
    \E r \in Reqs :
        /\ SelectDone(req[r])
        /\ Len(req[r].workflow.filters.labelIds) = 2
        /\ \E e1, e2 \in EmailsOfUser(req[r].workflow.userId) :
            /\ Selected(req[r], e1.id) /\ ~Selected(req[r], e2.id)
            /\ Cardinality({el.labelId : el \in LabelsOfEmail(e1)}) = 1

\* C2: with an empty or absent labelIds list the selected list is the whole
\* list of the owner's emails, the emails without labels included.
C2_NoLabelIdsSelectsAll ==
    \A r \in Reqs :
        SelectDone(req[r]) /\ ~NonEmptyLabelIds(req[r]) =>
            /\ req[r].filteredEmails = req[r].allEmails
            /\ Len(req[r].filteredEmails) = Cardinality(EmailsOfUser(req[r].workflow.userId))
            /\ \A e \in EmailsOfUser(req[r].workflow.userId) : Selected(req[r], e.id)

\* an execute call of a workflow stored with labelIds: [] that selected two
\* emails, one of them without labels
C2_Witness ==
    \E r \in Reqs :
        /\ SelectDone(req[r])
        /\ req[r].workflow.filters.hasLabelIds /\ Len(req[r].workflow.filters.labelIds) = 0
        /\ Len(req[r].filteredEmails) >= 2
        /\ \E i \in DOMAIN req[r].filteredEmails : req[r].filteredEmails[i].labels = {}

\* s is t with some elements left out, the others in their order
IsSubsequence(s, t) ==
    \E f \in [DOMAIN s -> DOMAIN t] :
        /\ \A i, j \in DOMAIN s : i < j => f[i] < f[j]
        /\ \A i \in DOMAIN s : t[f[i]] = s[i]

EachOnce(s) == \A i, j \in DOMAIN s : i # j => s[i].id # s[j].id

\* C3: the selected list is a subsequence of the list getEmailsByUserId
\* returned, which holds every email once, newest received first.
C3_SelectedIsSubsequence ==
    \A r \in Reqs :
        SelectDone(req[r]) =>
            /\ IsSubsequence(req[r].filteredEmails, req[r].allEmails)
            /\ EachOnce(req[r].allEmails) /\ EachOnce(req[r].filteredEmails)
            /\ NewestFirst(req[r].allEmails) /\ NewestFirst(req[r].filteredEmails)

\* an execute call with a non-empty labelIds list that selected the first and
\* the last of three emails received at different times
C3_Witness ==
    \E r \in Reqs :
        /\ SelectDone(req[r]) /\ NonEmptyLabelIds(req[r])
        /\ Len(req[r].allEmails) = 3 /\ Len(req[r].filteredEmails) = 2
        /\ req[r].filteredEmails[1] = req[r].allEmails[1]
        /\ req[r].filteredEmails[2] = req[r].allEmails[3]
        /\ req[r].allEmails[1].receivedAt > req[r].allEmails[3].receivedAt

\* the execute call in slot q has answered 200 with the execution
Succeeded(q) == q.op = "execute" /\ q.pc = "done" /\ q.status = 200

\* C4: a successful execute call has created exactly one workflow_executions
\* row; it belongs to the executed workflow and its emailCount is the number
\* of emails the call selected.
C4_OneExecutionWithSelectedCount ==
    \A r \in Reqs :
        Succeeded(req[r]) =>
            /\ Cardinality(req[r].executions) = 1
            /\ req[r].executions = {x \in workflowExecutions : x.id = nextId.execution}
            /\ \A x \in req[r].executions :
                /\ x.workflowId = req[r].target
                /\ x.emailCount = Len(req[r].filteredEmails)

\* a successful execute call that fetched two emails and selected one
C4_Witness ==
    \E r \in Reqs :
        /\ Succeeded(req[r])
        /\ Len(req[r].allEmails) = 2 /\ Len(req[r].filteredEmails) = 1
        /\ \E x \in workflowExecutions : x.workflowId = req[r].target /\ x.emailCount = 1

\* C5: after a successful execute call the workflow's lastRunAt is a time not
\* before the start of the call.
C5_LastRunAtNotBeforeStart ==
    \A r \in Reqs :
        Succeeded(req[r]) =>
            \E w \in workflows :
                /\ w.id = req[r].target
                /\ w.lastRunAt # NullTime
                /\ w.lastRunAt >= req[r].startedAt
                /\ w.lastRunAt = req[r].lastRunWritten

\* a successful execute call of a workflow whose lastRunAt is later than the
\* start of the call
C5_Witness ==
    \E r \in Reqs :
        /\ Succeeded(req[r])
        /\ \E w \in workflows : w.id = req[r].target /\ w.lastRunAt > req[r].startedAt

\* C6: an execute call that selects no email is rejected with 400, has asked
\* the model for nothing, has written no workflow_executions row and has left
\* the workflow row (lastRunAt included) as it was loaded.
C6_EmptySelectionRejected ==
    \A r \in Reqs :
        SelectDone(req[r]) /\ Len(req[r].filteredEmails) = 0 =>
            /\ req[r].pc = "done" /\ req[r].status = 400
            /\ req[r].modelCalls = 0
            /\ req[r].executions = {}
            /\ req[r].lastRunWritten = NullTime
            /\ req[r].workflow \in workflows

\* a rejected execute call of a user who has emails, none of them selected
C6_Witness ==
    \E r \in Reqs :
        /\ req[r].op = "execute" /\ req[r].pc = "done" /\ req[r].status = 400
        /\ Len(req[r].allEmails) >= 2 /\ NonEmptyLabelIds(req[r])

\* C7: an execute call whose summary call failed has answered 500, has
\* written no workflow_executions row and has left the workflow row (lastRunAt
\* included) as it was loaded.
C7_SummaryFailureIsFatal ==
    \A r \in Reqs :
        req[r].op = "execute" /\ req[r].outcome = "error" =>
            /\ req[r].pc = "done" /\ req[r].status = 500
            /\ req[r].executions = {}
            /\ req[r].lastRunWritten = NullTime
            /\ req[r].workflow \in workflows

\* an execute call that selected emails, made its one model call and saw it fail
C7_Witness ==
    \E r \in Reqs :
        /\ req[r].op = "execute" /\ req[r].outcome = "error" /\ req[r].pc = "done"
        /\ req[r].modelCalls = 1 /\ Len(req[r].filteredEmails) > 0

\* C8: an execute request naming a workflow that does not exist, or that is
\* another user's, is answered 404 by a step that fetches no emails, calls no
\* model and changes no table.
C8_NotFoundNoSideEffects ==
    [][\A r \in Reqs :
        (/\ Finished(r) /\ req'[r] # req[r]
         /\ req'[r].op = "execute"
         /\ ~\E w \in workflows : w.id = req'[r].target /\ w.userId = req'[r].userId)
        => /\ req'[r].pc = "done" /\ req'[r].status = 404
           /\ req'[r].allEmails = <<>> /\ req'[r].modelCalls = 0
           /\ req'[r].executions = {} /\ req'[r].lastRunWritten = NullTime
           /\ db' = db]_vars

\* an execute request answered 404 for a workflow that exists and is another
\* user's
C8_Witness ==
    \E r \in Reqs :
        /\ req[r].op = "execute" /\ req[r].pc = "done" /\ req[r].status = 404
        /\ \E w \in workflows : w.id = req[r].target /\ w.userId # req[r].userId

\* the email_labels rows of a pair
PairRows(emailId, labelId) ==
    {el \in emailLabels : el.emailId = emailId /\ el.labelId = labelId}

\* C9: after an assignment that reported no error (by hand or by
\* classification) there is exactly one email_labels row of the assigned pair,
\* however often the pair was assigned before.
C9_OneRowPerAssignedPair ==
    \A r \in Reqs :
        req[r].op \in {"addLabel", "classify"} /\ req[r].pc = "done" /\ req[r].status = 200 =>
            \A row \in req[r].inserted :
                Cardinality(PairRows(row.emailId, row.labelId)) = 1

\* C10 as stated: a classify request of a user without labels is answered 400,
\* with no classifier call and no new email_labels row.
C10_ZeroLabelsAnswered400 ==
    \A r \in Reqs :
        (/\ req[r].op = "classify" /\ req[r].pc = "done"
         /\ ~\E l \in labels : l.userId = req[r].userId)
        => req[r].status = 400 /\ req[r].modelCalls = 0 /\ req[r].inserted = {}

\* C10 (amended): a classify request of a user without labels, once past the
\* lookup of the email and the read of the labels, has made no classifier call
\* and no new email_labels row, and is answered 400 when the email is the
\* caller's and 404 when it is not.
C10_ZeroLabelsRejected ==
    \A r \in Reqs :
        (/\ req[r].op = "classify" /\ req[r].pc # "labels"
         /\ ~\E l \in labels : l.userId = req[r].userId)
        => /\ req[r].pc = "done"
           /\ req[r].modelCalls = 0 /\ req[r].inserted = {}
           /\ req[r].status =
                IF \E e \in emails : e.id = req[r].target
                                     /\ AccountOwner[e.emailAccountId] = req[r].userId
                THEN 400 ELSE 404

\* a classify request for an email of the caller, who has no labels, answered 400
C10_Witness ==
    \E r \in Reqs :
        /\ req[r].op = "classify" /\ req[r].pc = "done" /\ req[r].status = 400
        /\ \E e \in emails : e.id = req[r].target
                              /\ AccountOwner[e.emailAccountId] = req[r].userId
        /\ ~\E l \in labels : l.userId = req[r].userId

\* the classify request in slot q has received a list of names from the model
Classified(q) == q.op = "classify" /\ q.outcome = "text"

\* the ids of the candidate labels whose name is one of the returned names,
\* letter case ignored
MatchingIds(q) ==
    {l.id : l \in {c \in Range(q.labelsRead) :
                        \E i \in DOMAIN q.names : ToLowerCase[q.names[i]] = ToLowerCase[c.name]}}

\* C11: classifyEmail returns exactly the ids of the candidate labels whose
\* name equals a returned name ignoring letter case, each once; a returned
\* name that matches no candidate adds nothing, so every returned id is the id
\* of a candidate.
C11_SuggestedAreMatchingCandidates ==
    \A r \in Reqs :
        Classified(req[r]) =>
            /\ Range(req[r].suggested) = MatchingIds(req[r])
            /\ Range(req[r].suggested) \subseteq {c.id : c \in Range(req[r].labelsRead)}
            /\ \A i, j \in DOMAIN req[r].suggested :
                    i # j => req[r].suggested[i] # req[r].suggested[j]

\* a classification whose answer names "work" for the candidate "Work" and
\* also "Spam", which is no candidate
C11_Witness ==
    \E r \in Reqs :
        /\ Classified(req[r])
        /\ Includes(req[r].names, "work") /\ Includes(req[r].names, "Spam")
        /\ \E c \in Range(req[r].labelsRead) :
                c.name = "Work" /\ Includes(req[r].suggested, c.id)
        /\ Len(req[r].suggested) < Len(req[r].names)

\* C12: a classify request whose classifier call failed (or answered what
\* cannot be parsed) reports no error: nothing is suggested, no email_labels
\* row is created and the response is a success.
C12_ClassifierFailureSwallowed ==
    \A r \in Reqs :
        req[r].op = "classify" /\ req[r].outcome = "error" =>
            /\ req[r].pc = "done" /\ req[r].status = 200
            /\ req[r].suggested = <<>>
            /\ req[r].inserted = {}

\* a classify request that made its model call, saw it fail and was answered
C12_Witness ==
    \E r \in Reqs :
        /\ req[r].op = "classify" /\ req[r].outcome = "error" /\ req[r].pc = "done"
        /\ req[r].modelCalls = 1 /\ Len(req[r].labelsRead) > 0

\* the users at the end of the owning chain of an email (email -> account ->
\* user) and of a workflow's executions (execution -> workflow -> user)
EmailOwners(emailId, es) == {AccountOwner[e.emailAccountId] : e \in {x \in es : x.id = emailId}}
WorkflowOwners(workflowId, ws) == {w.userId : w \in {x \in ws : x.id = workflowId}}

\* C13: every emails, email_labels or workflow_executions row a step of a
\* request creates or removes, and every email an execute call reads, has an
\* owning chain that ends at the user who made the request.
C13_CrossUserFailsClosed ==
    [][\A r \in Reqs :
        req'[r] # req[r] =>
            /\ \A e \in emails' \ emails : AccountOwner[e.emailAccountId] = req'[r].userId
            /\ \A el \in emailLabels' \ emailLabels :
                    EmailOwners(el.emailId, emails') = {req'[r].userId}
            /\ \A el \in emailLabels \ emailLabels' :
                    EmailOwners(el.emailId, emails) = {req'[r].userId}
            /\ \A x \in workflowExecutions' \ workflowExecutions :
                    WorkflowOwners(x.workflowId, workflows') = {req'[r].userId}
            /\ \A x \in workflowExecutions \ workflowExecutions' :
                    WorkflowOwners(x.workflowId, workflows) = {req'[r].userId}
            /\ \A i \in DOMAIN req'[r].allEmails :
                    EmailOwners(req'[r].allEmails[i].id, emails') = {req'[r].userId}]_vars

\* the execute call in slot q has reported an error to its caller
Errored(q) == q.op = "execute" /\ q.pc = "done" /\ q.status # 200

\* C14 as stated: after an execute call that reported an error, no
\* workflow_executions row written by that call exists.
C14_ErrorMeansNoRecord ==
    \A r \in Reqs :
        Errored(req[r]) => req[r].executions \cap workflowExecutions = {}

\* C14 (amended): the step by which an execute call reports an error writes no
\* workflow_executions row; unless that step is the update of lastRunAt, the
\* call has written no row at all; when it is, the row the call inserted
\* before stays and the workflows table is left as it was.
C14_ErrorBeforeInsertMeansNoRecord ==
    [][\A r \in Reqs :
        req'[r] # req[r] /\ Errored(req'[r]) =>
            /\ workflowExecutions' = workflowExecutions
            /\ IF req[r].op = "execute" /\ req[r].pc = "update"
               THEN /\ req'[r].executions # {}
                    /\ req'[r].executions \subseteq workflowExecutions'
                    /\ workflows' = workflows
               ELSE req'[r].executions = {}]_vars

\* an execute call whose summary was computed and whose insert of the
\* execution failed: an error reported, no row written
C14_Witness ==
    \E r \in Reqs :
        /\ Errored(req[r]) /\ req[r].status = 500
        /\ req[r].summary = "text" /\ req[r].modelCalls = 1
        /\ req[r].executions = {}
        /\ workflowExecutions = {}

\* C15: a request that names a workflow, email or label of which the caller
\* has no row (none of that id, or another user's) is answered NotFound (404),
\* not with a success or a generic failure.
C15_MissingSurfacesNotFound ==
    \A r \in Reqs :
        req[r].pc = "done" /\ req[r].missing => req[r].status = 404

\* the listing in slot q of a workflow of the caller
Listed(q) ==
    /\ q.op = "listExecutions" /\ q.pc = "done"
    /\ \E w \in workflows : w.id = q.target /\ w.userId = q.userId

\* C16: the listing of a workflow of the caller holds at most 10 executions,
\* each once and all of that workflow, ordered by executedAt newest first; no
\* execution left out was executed later than a listed one; with n <= 10
\* executions of the workflow all n are listed.
C16_TenMostRecentNewestFirst ==
    \A r \in Reqs :
        Listed(req[r]) =>
            LET all == {x \in workflowExecutions : x.workflowId = req[r].target}
                s == req[r].listed
            IN  /\ Len(s) <= 10
                /\ Len(s) = IF Cardinality(all) <= 10 THEN Cardinality(all) ELSE 10
                /\ Range(s) \subseteq all
                /\ \A i, j \in DOMAIN s : i # j => s[i] # s[j]
                /\ \A i, j \in DOMAIN s : i < j => s[i].executedAt >= s[j].executedAt
                /\ \A x \in all \ Range(s), i \in DOMAIN s : s[i].executedAt >= x.executedAt

\* a listing of ten executions of a workflow that has twelve, the two oldest
\* left out
C16_Witness ==
    \E r \in Reqs :
        /\ Listed(req[r])
        /\ Len(req[r].listed) = 10
        /\ Cardinality({x \in workflowExecutions : x.workflowId = req[r].target}) = 12
        /\ req[r].listed[1].executedAt > req[r].listed[10].executedAt
        /\ \E x \in workflowExecutions :
            /\ x.workflowId = req[r].target
            /\ ~Includes(req[r].listed, x)
            /\ x.executedAt < req[r].listed[10].executedAt

\* C17: workflow_executions is append-only: a step leaves every row as it is
\* (summary, emailCount, executedAt and workflowId unchanged), or removes it
\* in the step that deletes the workflow it belongs to.
C17_ExecutionsAppendOnly ==
    [][/\ \A x \in workflowExecutions :
            \/ x \in workflowExecutions'
            \/ /\ \E w \in workflows : w.id = x.workflowId
               /\ ~\E w \in workflows' : w.id = x.workflowId
       /\ \A x \in workflowExecutions, y \in workflowExecutions' : y.id = x.id => y = x]_vars

\* a workflow deleted by its owner after a run: its execution went with it
C17_Witness ==
    \E r \in Reqs :
        /\ req[r].op = "deleteWorkflow" /\ req[r].pc = "done" /\ ~req[r].missing
        /\ nextId.execution = 1
        /\ workflowExecutions = {}

\* the workflows rows a step inserts
CreatedWorkflows == {w \in workflows' : ~\E v \in workflows : v.id = w.id}

\* a created weekly workflow is due 7 days, a biweekly one 14 days after the
\* time the create-workflow handler read
CreatedDueAfterFrequency ==
    \A w \in CreatedWorkflows :
        /\ w.frequency = "weekly" => w.nextRunAt = now' + 7
        /\ w.frequency = "biweekly" => w.nextRunAt = now' + 14

\* C18: the create-workflow operation stores a workflow with nextRunAt equal
\* to the creation time plus 7 days when weekly and plus 14 days when
\* biweekly, and the frequency of every stored workflow is weekly or biweekly.
C18_NextRunAtAndFrequencyEnum ==
    [][/\ CreatedDueAfterFrequency
       /\ \A w \in workflows' : w.frequency \in {"weekly", "biweekly"}]_vars

\* C19: execute calls of one workflow do not exclude each other: when two
\* calls in flight together have both succeeded, each has written its own
\* workflow_executions row, and the two rows of the workflow are in the table.
C19_OverlappingExecutesBothRecord ==
    \A r1, r2 \in Reqs :
        (/\ r1 # r2
         /\ Succeeded(req[r1]) /\ Succeeded(req[r2])
         /\ req[r1].target = req[r2].target)
        => \E x1 \in req[r1].executions, x2 \in req[r2].executions :
                /\ x1.id # x2.id
                /\ {x1, x2} \subseteq workflowExecutions
                /\ x1.workflowId = req[r1].target /\ x2.workflowId = req[r1].target

\* two execute calls of the never-run workflow 1 that both loaded it before
\* either had set lastRunAt, and both succeeded: two rows of the workflow
C19_Witness ==
    \E r1, r2 \in Reqs :
        /\ r1 # r2
        /\ Succeeded(req[r1]) /\ Succeeded(req[r2])
        /\ req[r1].target = req[r2].target
        /\ req[r1].workflow.lastRunAt = NullTime /\ req[r2].workflow.lastRunAt = NullTime
        /\ req[r1].lastRunWritten # NullTime /\ req[r2].lastRunWritten # NullTime
        /\ Cardinality({x \in workflowExecutions : x.workflowId = req[r1].target}) = 2

\* the execute call in slot q has inserted its execution and has not (yet, or
\* ever) set lastRunAt: it waits for the update, or the update has failed
RecordedNotUpdated(q) ==
    /\ q.op = "execute" /\ q.executions # {}
    /\ q.pc = "update" \/ (q.pc = "done" /\ q.status = 500)

\* C20: the execution is written before lastRunAt is set, and not in one
\* transaction with it: while an execute call stands between the two writes
\* (where a crash stops it), and after its update of lastRunAt has failed, the
\* execution it inserted is in the table and the workflow row still is as the
\* call loaded it, lastRunAt included.
C20_RecordBeforeLastRunAt ==
    \A r \in Reqs :
        RecordedNotUpdated(req[r]) =>
            /\ req[r].executions \subseteq workflowExecutions
            /\ req[r].lastRunWritten = NullTime
            /\ req[r].workflow \in workflows

\* a second run of a workflow whose update of lastRunAt failed: two executions
\* of the workflow, lastRunAt still the time of the first run
C20_Witness ==
    \E r \in Reqs :
        /\ RecordedNotUpdated(req[r]) /\ req[r].pc = "done"
        /\ Cardinality({x \in workflowExecutions : x.workflowId = req[r].target}) = 2
        /\ \E w \in workflows :
            /\ w.id = req[r].target
            /\ w.lastRunAt # NullTime
            /\ w.lastRunAt = req[r].workflow.lastRunAt
            /\ \E x \in req[r].executions : x \in workflowExecutions

\* C21: no retries: an execute call has made at most one summary call and a
\* classify call at most one classifier call, whatever the call answered; a
\* call that failed was the only one of its request.
C21_AtMostOneModelCall ==
    \A r \in Reqs :
        /\ req[r].op \in {"execute", "classify"} => req[r].modelCalls <= 1
        /\ req[r].outcome # "none" => req[r].modelCalls = 1
        /\ req[r].op = "execute" /\ req[r].outcome = "error" => req[r].pc = "done"

\* an execute call and a classify call, in flight together, whose one model
\* call each has failed
C21_Witness ==
    \E r1, r2 \in Reqs :
        /\ req[r1].op = "execute" /\ req[r1].outcome = "error" /\ req[r1].modelCalls = 1
        /\ req[r2].op = "classify" /\ req[r2].outcome = "error" /\ req[r2].modelCalls = 1
        /\ req[r1].pc = "done" /\ req[r2].pc = "done"

\* the execute call in slot q has loaded its workflow
Loaded(q) == q.op = "execute" /\ q.workflow # NoWorkflow

\* C22: an execute call, whatever its outcome, leaves the workflow's
\* nextRunAt, frequency, filters and owner as it loaded them: the row differs
\* from the loaded one in lastRunAt at most, and only by the call's own write.
C22_ExecuteKeepsNextRunAt ==
    \A r \in Reqs :
        Loaded(req[r]) =>
            \E w \in workflows :
                /\ w = [req[r].workflow EXCEPT !.lastRunAt = w.lastRunAt]
                /\ w.lastRunAt \in {req[r].workflow.lastRunAt, req[r].lastRunWritten}

\* a successful run that set lastRunAt to a time after the creation of the
\* workflow and left nextRunAt where the creation had put it
C22_Witness ==
    \E r \in Reqs :
        /\ Succeeded(req[r])
        /\ \E w \in workflows :
            /\ w.id = req[r].target
            /\ w.lastRunAt = req[r].lastRunWritten /\ w.lastRunAt > 1
            /\ w.nextRunAt = req[r].workflow.nextRunAt
            /\ w.nextRunAt = 8 /\ w.frequency = "weekly"

\* C23: a step of a classify call removes no email_labels row and changes
\* none; every row it adds links the classified email with a label the
\* classifier returned and is flagged automatic.
C23_ClassifyAddsOnlySuggestedAuto ==
    [][\A r \in Reqs :
        req'[r] # req[r] /\ req'[r].op = "classify" =>
            /\ emailLabels \subseteq emailLabels'
            /\ \A el \in emailLabels' \ emailLabels :
                /\ el.emailId = req'[r].target
                /\ Includes(req'[r].suggested, el.labelId)
                /\ el.isAuto]_vars

\* a successful classify call of email 2 that added one automatic association
\* and left the association of email 1, made by hand, in place
C23_Witness ==
    \E r \in Reqs :
        /\ req[r].op = "classify" /\ req[r].pc = "done" /\ req[r].status = 200
        /\ req[r].target = 2
        /\ \E el \in req[r].inserted : el \in emailLabels /\ el.emailId = 2 /\ el.isAuto
        /\ \E el \in emailLabels : el.emailId = 1 /\ ~el.isAuto

\* C24: every execute or classify request that is in flight is eventually
\* answered, and a request that has been answered is not answered again: its
\* slot changes only when the next request is accepted.
C24_EveryRequestAnsweredOnce ==
    /\ \A r \in Reqs : (req[r].op \in {"execute", "classify"} /\ ~Finished(r)) ~> (req[r].pc = "done")
    /\ [][\A r \in Reqs :
            req[r].op \in {"execute", "classify"} /\ req[r].pc = "done" /\ req'[r] # req[r]
                => served' = served + 1]_vars

\* an execute call and a classify call that went through all their steps and
\* were both answered 200
C24_Witness ==
    \E r1 \in Reqs, r2 \in Reqs :
        /\ req[r1].op = "execute" /\ req[r1].pc = "done" /\ req[r1].status = 200
        /\ req[r1].executions # {}
        /\ req[r2].op = "classify" /\ req[r2].pc = "done" /\ req[r2].status = 200
        /\ req[r2].inserted # {}

\* C25: no step changes the owning user of a stored workflow or of a stored
\* label.
C25_OwnerNeverChanges ==
    [][/\ \A w \in workflows, w2 \in workflows' : w.id = w2.id => w.userId = w2.userId
       /\ \A l \in labels, l2 \in labels' : l.id = l2.id => l.userId = l2.userId]_vars

\* C26: when the model answers an execute call with empty content, the call
\* goes on with the text 'Summary generation failed.' as its summary: it is
\* not answered at the Summarize step, the execution it records carries that
\* text, and when it answers 200 it has recorded one execution and set
\* lastRunAt.  No stored execution has an empty summary.
C26_EmptyContentGivesPlaceholder ==
    /\ \A r \in Reqs :
        req[r].op = "execute" /\ req[r].outcome = "empty" =>
            /\ req[r].summary = PlaceholderSummary
            /\ \A x \in req[r].executions : x.summary = PlaceholderSummary
            /\ Succeeded(req[r]) =>
                /\ Cardinality(req[r].executions) = 1
                /\ req[r].executions \subseteq workflowExecutions
                /\ req[r].lastRunWritten # NullTime
                /\ \E w \in workflows :
                    w.id = req[r].workflow.id /\ w.lastRunAt = req[r].lastRunWritten
    /\ \A x \in workflowExecutions : x.summary # ""

\* an execute call answered 200 after the model returned empty content
C26_Witness ==
    \E r \in Reqs :
        /\ Succeeded(req[r]) /\ req[r].outcome = "empty"
        /\ \E x \in workflowExecutions :
            x \in req[r].executions /\ x.summary = PlaceholderSummary
        /\ req[r].lastRunWritten # NullTime

\* C27: a classify call that reported an error has left none of its
\* associations behind.
C27_ClassifyErrorAddsNothing ==
    \A r \in Reqs :
        req[r].op = "classify" /\ req[r].pc = "done" /\ req[r].status # 200
            => req[r].inserted \cap emailLabels = {}

\* C28: every email_labels row links an email and a label of the same user.
C28_AssociationWithinOneUser ==
    \A el \in emailLabels :
        \A e \in emails, l \in labels :
            e.id = el.emailId /\ l.id = el.labelId => AccountOwner[e.emailAccountId] = l.userId

\* the labelIds list of the workflow of slot q is non-empty and names no
\* label that exists
ListsOnlyDeletedLabels(q) ==
    /\ NonEmptyLabelIds(q)
    /\ \A l \in labels : ~Includes(q.workflow.filters.labelIds, l.id)

\* the execute calls that ran their Select step with a labelIds list naming
\* deleted labels only selected nothing and were answered 400
DeletedLabelsSelectNothing ==
    \A r \in Reqs :
        SelectDone(req[r]) /\ ListsOnlyDeletedLabels(req[r]) =>
            /\ req[r].filteredEmails = <<>>
            /\ req[r].pc = "done" /\ req[r].status = 400

\* C29: a step that deletes a label leaves every stored workflow as it was,
\* and an execute call of a workflow whose non-empty labelIds list names
\* deleted labels only selects no email and is rejected as an empty selection.
C29_DeleteLabelKeepsFilters ==
    [][/\ (labels' # labels /\ labels' \subseteq labels) => workflows' = workflows
       /\ DeletedLabelsSelectNothing']_vars

\* label 1 is deleted, workflow 1 still lists it, and an execute call of the
\* workflow, whose owner has emails, was answered 400
C29_Witness ==
    \E r \in Reqs :
        /\ req[r].op = "execute" /\ req[r].pc = "done" /\ req[r].status = 400
        /\ ListsOnlyDeletedLabels(req[r])
        /\ Len(req[r].allEmails) > 0
        /\ \E w \in workflows :
            /\ w.id = req[r].target
            /\ w.filters = req[r].workflow.filters
            /\ Len(w.filters.labelIds) > 0

\* C30: every email_labels row refers to an existing email and an existing
\* label, and every workflow_executions row to an existing workflow, whatever
\* requests ran between the steps of the requests that wrote the rows.
C30_ReferencesResolve ==
    /\ \A el \in emailLabels :
        /\ \E e \in emails : e.id = el.emailId
        /\ \E l \in labels : l.id = el.labelId
    /\ \A x \in workflowExecutions : \E w \in workflows : w.id = x.workflowId

\* a classify request that passed its email lookup and was answered 500 at a
\* label the other request has deleted, or an execute request that loaded its
\* workflow, got its summary and was answered 500 with nothing recorded, the
\* workflow deleted by the other request
C30_Witness ==
    \E r1 \in Reqs, r2 \in Reqs :
        /\ req[r1].pc = "done" /\ req[r1].status = 500 /\ ~req[r1].missing
        /\ req[r2].pc = "done" /\ req[r2].status = 200 /\ ~req[r2].missing
        /\ \/ /\ req[r1].op = "classify" /\ req[r1].todo # <<>>
              /\ req[r2].op = "deleteLabel"
              /\ \A l \in labels : l.id # Head(req[r1].todo)
           \/ /\ req[r1].op = "execute" /\ req[r1].summary # "" /\ req[r1].executions = {}
              /\ req[r2].op = "deleteWorkflow"
              /\ \A w \in workflows : w.id # req[r1].target

====
